---- MODULE Spec2Model ----
(***************************************************************************)
(* Model of the COMPASS critique endpoint (api/critique.js and its two     *)
(* other revisions): the text normalizer, the article extractor, the JSON  *)
(* extractor, the model resolver (static fallback and capability           *)
(* discovery) and the request handler that sequences them.                 *)
(*                                                                         *)
(* Text is modelled as a sequence of one-character strings, so that the    *)
(* regular expressions of the source act on characters.  Error messages    *)
(* and model names are sequences of words / path segments.                 *)
(***************************************************************************)
EXTENDS Integers, Sequences, FiniteSets, TLC

(* ------------------------------ bounds --------------------------------- *)

\* longest completion text (in tokens) explored for extractJsonFromText
MaxTextLen == 7
\* most elements of an HTML document explored for extractArticle
MaxNodes == 3
\* most entries of a ListModels answer
MaxModels == 2
\* longest text (in characters) explored for sanitizeText
MaxInputLen == 6

(* ------------------------- sequence helpers ---------------------------- *)

Range(s) == { s[i] : i \in 1..Len(s) }

SeqsUpTo(S, n) == UNION { [1..k -> S] : k \in 0..n }

RECURSIVE Join(_, _)
\* Array.prototype.join: the parts separated by sep
Join(ss, sep) ==
  IF ss = <<>> THEN <<>>
  ELSE IF Len(ss) = 1 THEN ss[1]
  ELSE ss[1] \o sep \o Join(Tail(ss), sep)

\* String.prototype.startsWith / endsWith / includes on sequences
StartsWith(s, p) == Len(p) <= Len(s) /\ SubSeq(s, 1, Len(p)) = p
EndsWith(s, p) == Len(p) <= Len(s) /\ SubSeq(s, Len(s) - Len(p) + 1, Len(s)) = p
Includes(s, p) == \E i \in 1..(Len(s) - Len(p) + 1) : SubSeq(s, i, i + Len(p) - 1) = p

(* --------------------------- sanitizeText ------------------------------ *)

NL == "\n"
\* the characters \s matches (and trim strips) that the model uses
Whitespace == {" ", NL}
IsWs(c) == c \in Whitespace

\* default of the max parameter
DefaultMax == 8000

\* the marker appended on truncation: a newline, U+2026, "(", the two
\* characters U+7701 U+7565 ("omitted") and ")": six characters
TruncationMarker == <<NL, "U+2026", "(", "U+7701", "U+7565", ")">>

\* last index of the maximal whitespace run of s that starts at i
RECURSIVE WsRunEnd(_, _)
WsRunEnd(s, i) == IF i < Len(s) /\ IsWs(s[i + 1]) THEN WsRunEnd(s, i + 1) ELSE i

\* s.replace(/\s+\n/g, "\n"): at each position the leftmost match of one or
\* more whitespace characters followed by a newline, taken greedily, becomes
\* one newline; the scan resumes after the match.
RECURSIVE ReplaceWsNl(_, _)
ReplaceWsNl(s, i) ==
  IF i > Len(s) THEN <<>>
  ELSE IF ~IsWs(s[i]) THEN <<s[i]>> \o ReplaceWsNl(s, i + 1)
  ELSE LET e == WsRunEnd(s, i)
           nls == { j \in (i + 1)..e : s[j] = NL }
       IN IF nls = {} THEN <<s[i]>> \o ReplaceWsNl(s, i + 1)
          ELSE LET j == CHOOSE x \in nls : \A y \in nls : y <= x
               IN <<NL>> \o ReplaceWsNl(s, j + 1)

\* last index of the maximal run of newlines of s that starts at i
RECURSIVE NlRunEnd(_, _)
NlRunEnd(s, i) == IF i < Len(s) /\ s[i + 1] = NL THEN NlRunEnd(s, i + 1) ELSE i

\* s.replace(/\n{3,}/g, "\n\n")
RECURSIVE ReplaceNl3(_, _)
ReplaceNl3(s, i) ==
  IF i > Len(s) THEN <<>>
  ELSE IF s[i] = NL /\ NlRunEnd(s, i) >= i + 2
       THEN <<NL, NL>> \o ReplaceNl3(s, NlRunEnd(s, i) + 1)
       ELSE <<s[i]>> \o ReplaceNl3(s, i + 1)

RECURSIVE TrimStart(_)
TrimStart(s) == IF s # <<>> /\ IsWs(Head(s)) THEN TrimStart(Tail(s)) ELSE s

RECURSIVE TrimEnd(_)
TrimEnd(s) ==
  IF s # <<>> /\ IsWs(s[Len(s)]) THEN TrimEnd(SubSeq(s, 1, Len(s) - 1)) ELSE s

\* String.prototype.trim
Trim(s) == TrimStart(TrimEnd(s))

\* a cut that also applies to a text of exactly max characters
sanitizeTextCutAtMax(s, max) ==
  IF s = <<>> THEN <<>>
  ELSE LET t == Trim(ReplaceNl3(ReplaceWsNl(s, 1), 1))
       IN IF Len(t) >= max THEN SubSeq(t, 1, max) \o TruncationMarker ELSE t

\* sanitizeText(s, max)
sanitizeText(s, max) ==
  IF s = <<>> THEN <<>>
  ELSE LET t == Trim(ReplaceNl3(ReplaceWsNl(s, 1), 1))
       IN IF Len(t) > max THEN SubSeq(t, 1, max) \o TruncationMarker ELSE t

(* --------------------------- extractArticle ---------------------------- *)
(* An HTML document is its elements in document order, each with its tag,  *)
(* its class, the index of its parent element (0: none) and its own text,  *)
(* plus the content of the og:title meta element and the text of <title>.  *)
(* The text of an element is its own text followed by its descendants'.    *)

NoAttr == [present |-> FALSE, content |-> <<>>]

\* whether element a is element j or one of its ancestors
RECURSIVE IsAncestorOrSelf(_, _, _)
IsAncestorOrSelf(nodes, a, j) ==
  IF j = 0 THEN FALSE
  ELSE IF j = a THEN TRUE
  ELSE IsAncestorOrSelf(nodes, a, nodes[j].parent)

\* the selectors "header", "nav", "footer", "aside", ".sidebar", ".ads",
\* ".advertisement"
NoiseTags == {"header", "nav", "footer", "aside"}
NoiseClasses == {"sidebar", "ads", "advertisement"}
MatchesNoise(n) == n.tag \in NoiseTags \/ n.cls \in NoiseClasses

\* the elements left after $(sel).remove() for every noise selector: those
\* that neither match nor lie inside a matching element
AfterNoiseRemoval(nodes) ==
  { j \in 1..Len(nodes) :
      ~\E a \in 1..Len(nodes) : MatchesNoise(nodes[a]) /\ IsAncestorOrSelf(nodes, a, j) }

\* the elements of a document nothing was removed from
AllElements(nodes) == 1..Len(nodes)

\* $(el).text(): the text of element i among the elements kept
RECURSIVE TextFrom(_, _, _, _)
TextFrom(nodes, kept, i, j) ==
  IF j > Len(nodes) THEN <<>>
  ELSE (IF j \in kept /\ IsAncestorOrSelf(nodes, i, j) THEN nodes[j].text ELSE <<>>)
       \o TextFrom(nodes, kept, i, j + 1)

ElementText(nodes, kept, i) == TextFrom(nodes, kept, i, i)

\* $(tag): the kept elements with that tag
Select(nodes, kept, tag) == { j \in kept : nodes[j].tag = tag }

Min(S) == CHOOSE x \in S : \A y \in S : x <= y

\* $(tag).first().text(): empty when nothing is selected
FirstText(nodes, kept, tag) ==
  IF Select(nodes, kept, tag) = {} THEN <<>>
  ELSE ElementText(nodes, kept, Min(Select(nodes, kept, tag)))

\* the trimmed texts of the kept <p> elements from index j on, empty ones skipped
RECURSIVE ParagraphParts(_, _, _)
ParagraphParts(nodes, kept, j) ==
  IF j > Len(nodes) THEN <<>>
  ELSE (IF j \in kept /\ nodes[j].tag = "p" /\ Trim(ElementText(nodes, kept, j)) # <<>>
        THEN <<Trim(ElementText(nodes, kept, j))>> ELSE <<>>)
       \o ParagraphParts(nodes, kept, j + 1)

\* the body tiers: <article> if one exists, else <main> if one exists, else
\* the paragraphs joined by a blank line
BodyOf(nodes, kept) ==
  IF Select(nodes, kept, "article") # {} THEN FirstText(nodes, kept, "article")
  ELSE IF Select(nodes, kept, "main") # {} THEN FirstText(nodes, kept, "main")
  ELSE Join(ParagraphParts(nodes, kept, 1), <<NL, NL>>)

\* a || b for strings: a unless it is empty
OrElse(a, b) == IF a # <<>> THEN a ELSE b

\* $("meta[property='og:title']").attr("content"): undefined (falsy) when absent
OgTitle(html) == IF html.og.present THEN html.og.content ELSE <<>>

\* extractArticle of api/critique.js and of the capability-discovery revision:
\* the noise is removed first
extractArticle(html) ==
  LET kept == AfterNoiseRemoval(html.nodes)
      title == OrElse(Trim(FirstText(html.nodes, kept, "h1")),
                 OrElse(OgTitle(html), Trim(html.title)))
  IN [title |-> title, body |-> Trim(BodyOf(html.nodes, kept))]

\* extractArticle of the single-model revision: title and body are read from
\* the whole document, og:title is not consulted, and the noise is removed
\* only afterwards
extractArticleSingle(html) ==
  LET kept == AllElements(html.nodes)
      title == Trim(OrElse(FirstText(html.nodes, kept, "h1"), html.title))
  IN [title |-> title, body |-> Trim(BodyOf(html.nodes, kept))]

(* the documents explored *)

ElementKinds ==
  { [tag |-> "article", cls |-> ""], [tag |-> "main", cls |-> ""],
    [tag |-> "p", cls |-> ""], [tag |-> "h1", cls |-> ""],
    [tag |-> "nav", cls |-> ""], [tag |-> "div", cls |-> "ads"] }

ElementTexts == { <<>>, <<"a">>, <<" ", "b">> }

Elements ==
  { [tag |-> k.tag, cls |-> k.cls, parent |-> p, text |-> t] :
      k \in ElementKinds, p \in 0..(MaxNodes - 1), t \in ElementTexts }

\* document order: the parent of an element is the element before it or one
\* of that element's ancestors
WellNested(nodes) ==
  \A j \in 1..Len(nodes) :
     nodes[j].parent = 0 \/ (j > 1 /\ IsAncestorOrSelf(nodes, nodes[j].parent, j - 1))

OgTitles == { NoAttr, [present |-> TRUE, content |-> <<"o">>] }
TitleTexts == { <<>>, <<"t">> }

Documents ==
  { [nodes |-> ns, og |-> o, title |-> t] :
      ns \in { x \in SeqsUpTo(Elements, MaxNodes) : WellNested(x) },
      o \in OgTitles, t \in TitleTexts }

(* ------------------------- extractJsonFromText ------------------------- *)
(* A completion text is a sequence of tokens: the braces, the newline, ",",*)
(* "m" (a member with a scalar value, "key": 1), "k" (a key and its colon, *)
(* to be followed by a nested object) and "p" (a word of prose).           *)

JsonTokens == {"{", "}", NL, ",", "m", "k", "p"}

\* the first index from i on that holds no JSON whitespace
RECURSIVE SkipWs(_, _)
SkipWs(s, i) == IF i <= Len(s) /\ s[i] = NL THEN SkipWs(s, i + 1) ELSE i

\* JSON.parse of an object that starts at s[i]: the index after its closing
\* brace, or 0 for a SyntaxError
RECURSIVE ParseObject(_, _)
RECURSIVE ParseMembers(_, _)
ParseObject(s, i) ==
  IF i > Len(s) \/ s[i] # "{" THEN 0
  ELSE LET j == SkipWs(s, i + 1)
       IN IF j > Len(s) THEN 0
          ELSE IF s[j] = "}" THEN j + 1
          ELSE ParseMembers(s, j)

ParseMembers(s, j) ==
  LET afterMember ==
        IF j > Len(s) THEN 0
        ELSE IF s[j] = "m" THEN j + 1
        ELSE IF s[j] = "k" THEN ParseObject(s, SkipWs(s, j + 1))
        ELSE 0
      n == SkipWs(s, afterMember)
  IN IF afterMember = 0 \/ n > Len(s) THEN 0
     ELSE IF s[n] = "}" THEN n + 1
     ELSE IF s[n] = "," THEN ParseMembers(s, SkipWs(s, n + 1))
     ELSE 0

\* whether JSON.parse accepts s (an object, nothing after it)
ParsesAsObject(s) == ParseObject(s, 1) = Len(s) + 1

\* the parsed value: the tokens without the insignificant whitespace
RECURSIVE Canonical(_)
Canonical(s) ==
  IF s = <<>> THEN <<>>
  ELSE (IF Head(s) = NL THEN <<>> ELSE <<Head(s)>>) \o Canonical(Tail(s))

Positions(s, c) == { i \in 1..Len(s) : s[i] = c }
Max(S) == CHOOSE x \in S : \A y \in S : y <= x

\* "$" under the m flag: the end of the text or just before a newline
AtLineEnd(s, j) == j = Len(s) \/ s[j + 1] = NL

\* text.match(/\{[\s\S]*\}$/m): from the first "{" to the last "}" that ends
\* a line; <<>> when there is none
MatchToLineEnd(text) ==
  IF Positions(text, "{") = {} THEN <<>>
  ELSE LET i == Min(Positions(text, "{"))
           ends == { j \in Positions(text, "}") : j > i /\ AtLineEnd(text, j) }
       IN IF ends = {} THEN <<>> ELSE SubSeq(text, i, Max(ends))

\* text.match(/\{[\s\S]*\}/m): from the first "{" to the last "}"
MatchToLastBrace(text) ==
  IF Positions(text, "{") = {} THEN <<>>
  ELSE LET i == Min(Positions(text, "{"))
           ends == { j \in Positions(text, "}") : j > i }
       IN IF ends = {} THEN <<>> ELSE SubSeq(text, i, Max(ends))

\* the match extractJsonFromText parses: the first pattern's when it matches,
\* else the second's
JsonMatch(text) == OrElse(MatchToLineEnd(text), MatchToLastBrace(text))

\* extractJsonFromText: the parsed object, or the error thrown
extractJsonFromText(text) ==
  IF JsonMatch(text) = <<>>
  THEN [ok |-> FALSE, error |-> "JsonNotFound", value |-> <<>>]
  ELSE IF ParsesAsObject(JsonMatch(text))
  THEN [ok |-> TRUE, error |-> "", value |-> Canonical(JsonMatch(text))]
  ELSE [ok |-> FALSE, error |-> "SyntaxError", value |-> <<>>]

(* ------------------------------ parseInt ------------------------------- *)

Digits == {"0", "1", "2", "3", "4", "5", "6", "7", "8", "9"}
DigitValue(c) ==
  CASE c = "0" -> 0 [] c = "1" -> 1 [] c = "2" -> 2 [] c = "3" -> 3 [] c = "4" -> 4
    [] c = "5" -> 5 [] c = "6" -> 6 [] c = "7" -> 7 [] c = "8" -> 8 [] c = "9" -> 9

\* the value of the longest run of digits at the head of s, after acc
RECURSIVE DigitsValue(_, _)
DigitsValue(s, acc) ==
  IF s # <<>> /\ Head(s) \in Digits
  THEN DigitsValue(Tail(s), 10 * acc + DigitValue(Head(s)))
  ELSE acc

NaN == [kind |-> "NaN"]
Null == [kind |-> "null"]
Number(n) == [kind |-> "int", val |-> n]

\* parseInt(v, 10) of a value whose String() is str: leading whitespace is
\* skipped, a sign is read, then the longest run of digits; NaN when none
parseInt(str) ==
  LET t == TrimStart(str)
      signed == t # <<>> /\ Head(t) \in {"+", "-"}
      u == IF signed THEN Tail(t) ELSE t
  IN IF u = <<>> \/ Head(u) \notin Digits THEN NaN
     ELSE IF signed /\ Head(t) = "-" THEN Number(0 - DigitsValue(u, 0))
     ELSE Number(DigitsValue(u, 0))

\* the coercion without its isNaN check
CoerceScoreNoNaNCheck(raw) == parseInt(raw.str)

\* x = parseInt(x, 10); if (isNaN(x)) x = null
CoerceScore(raw) == IF parseInt(raw.str) = NaN THEN Null ELSE parseInt(raw.str)

\* A raw JSON value, with what String() makes of it
Raw(kind, str) == [kind |-> kind, str |-> str]
Undefined == Raw("undefined", <<"u", "n", "d", "e", "f", "i", "n", "e", "d">>)
RawNull == Raw("null", <<"n", "u", "l", "l">>)

\* the post-parse coercion of the handler.  title_feedback is absent or
\* falsy (skipped), an object (its score is coerced) or a truthy primitive:
\* setting a property on a primitive throws in an ES module, the empty catch
\* swallows it and overall_score is left as received.
CoerceCritique(c) ==
  IF c.title_feedback.kind = "falsy"
  THEN [c EXCEPT !.overall_score = CoerceScore(@)]
  ELSE IF c.title_feedback.kind = "object"
  THEN [c EXCEPT !.title_feedback.score = CoerceScore(@),
                 !.overall_score = CoerceScore(@)]
  ELSE c

(* --------------------------- Model resolver ---------------------------- *)
(* An error message is a sequence of words (separated by single spaces);   *)
(* a model name is the sequence of its "/"-separated path segments.        *)

\* String.prototype.toLowerCase on the words and characters the model uses
LowerOne(w) ==
  CASE w = "Not" -> "not" [] w = "Found" -> "found"
    [] w = "generateContent" -> "generatecontent"
    [] w = "H" -> "h" [] w = "T" -> "t" [] w = "P" -> "p" [] w = "S" -> "s"
    [] OTHER -> w
ToLowerCase(s) == [i \in 1..Len(s) |-> LowerOne(s[i])]

\* a classifier that takes any "not ..." message for an unavailable model
isModelNotFoundLoose(msg) ==
  \/ Includes(msg, <<"404">>)
  \/ Includes(ToLowerCase(msg), <<"not">>)

\* isModelNotFoundOrUnsupported(err), on err.message
isModelNotFoundOrUnsupported(msg) ==
  \/ Includes(msg, <<"404">>)
  \/ Includes(ToLowerCase(msg), <<"not", "found">>)
  \/ Includes(ToLowerCase(msg), <<"is", "not", "supported", "for", "generatecontent">>)

\* candidateModels of generateWithFallback
candidateModels ==
  <<"gemini-1.5-pro-002", "gemini-1.5-pro", "gemini-1.5-flash-002",
    "gemini-1.5-flash", "gemini-1.0-pro">>

\* the model the single-model revision asks for
singleModel == "gemini-1.5-pro-latest"

\* preferred of pickBestModel
preferred ==
  <<"gemini-1.5-pro-002", "gemini-1.5-pro", "gemini-1.5-flash-002",
    "gemini-1.5-flash", "gemini-1.0-pro", "gemini-pro">>

\* the segments i at which "/models/" occurs in a name: "models", neither
\* first nor last
Separators(n) == { i \in 2..(Len(n) - 1) : n[i] = "models" }

\* name.includes("/models/") ? name.split("/models/")[1] : name
\* (split takes the occurrences from the left, without overlap)
StripModelsPrefix(n) ==
  IF Separators(n) = {} THEN n
  ELSE LET i == Min(Separators(n))
           later == { j \in Separators(n) : j >= i + 2 }
       IN IF later = {} THEN SubSeq(n, i + 1, Len(n))
          ELSE SubSeq(n, i + 1, Min(later) - 1)

\* m.name === name || m.name?.endsWith(`/models/${name}`)
NameMatches(n, name) == n = <<name>> \/ EndsWith(n, <<"models", name>>)

\* the list without the filter
UsableUnfiltered(models) == models

\* models.filter(m => (m.supportedGenerationMethods || []).includes("generateContent"))
RECURSIVE Usable(_)
Usable(models) ==
  IF models = <<>> THEN <<>>
  ELSE (IF "generateContent" \in Head(models).supportedGenerationMethods
        THEN <<Head(models)>> ELSE <<>>) \o Usable(Tail(models))

\* usable.find(pred): the index of the first usable model matching name, 0 if none
FindMatch(usable, name) ==
  IF \E i \in 1..Len(usable) : NameMatches(usable[i].name, name)
  THEN Min({ i \in 1..Len(usable) : NameMatches(usable[i].name, name) })
  ELSE 0

NoModel == <<"null">>

\* the loop over preferred, from entry k on, then the first usable model,
\* then null
RECURSIVE PickFrom(_, _)
PickFrom(usable, k) ==
  IF k > Len(preferred)
  THEN IF Len(usable) > 0 THEN StripModelsPrefix(usable[1].name) ELSE NoModel
  ELSE IF FindMatch(usable, preferred[k]) # 0
  THEN StripModelsPrefix(usable[FindMatch(usable, preferred[k])].name)
  ELSE PickFrom(usable, k + 1)

\* pickBestModel(models): the identifier chosen, NoModel for null
pickBestModel(models) == PickFrom(Usable(models), 1)

\* if (!chosen): null, or the empty string
IsFalsyModel(chosen) == chosen = NoModel \/ chosen = <<"">>

(* ------------------------------ handler -------------------------------- *)
(* One request runs through one of the three revisions of the handler.     *)
(* The handler suspends at its network calls; an action is the code        *)
(* between two suspension points.                                          *)

VARIABLES
  variant,     \* the revision: "fallback" (api/critique.js), "discovery", "single"
  apiKey,      \* whether process.env.GEMINI_API_KEY is set
  req,         \* the request: its method and, once read, its JSON body
  pc,          \* where the handler is
  html,        \* the page the origin answered with (htmlResp.data)
  title,       \* the normalized title
  content,     \* the normalized body
  sourceMeta,  \* what the success envelope reports as source
  calls,       \* the outbound calls issued so far, each with its outcome
  tried,       \* generateWithFallback: the candidates that failed
  lastError,   \* generateWithFallback: the last error caught
  result,      \* what the resolver returned: the text and the model used
  models,      \* the answer of listModels
  chosen,      \* the model pickBestModel chose
  raw,         \* the critique as parsed, before the score coercion
  responses,   \* the responses sent
  steps,       \* the pipeline stages completed, in order
  arg,         \* the argument of the function under study (function specifications)
  ret          \* its result

vars ==
  <<variant, apiKey, req, pc, html, title, content, sourceMeta, calls, tried,
    lastError, result, models, chosen, raw, responses, steps, arg, ret>>

Variants == {"fallback", "discovery", "single"}

(* messages; each fixed text of the source is one word here *)
MsgMethodNotAllowed == <<"Method", "Not", "Allowed">>
MsgInvalidJson == <<"Invalid", "JSON", "body">>
MsgBadUrl == <<"msg:url-invalid">>
MsgTextRequired == <<"msg:title-and-body-required">>
MsgBadMode == <<"msg:mode-must-be-text-or-url">>
MsgNoApiKey == <<"msg:GEMINI_API_KEY-not-set">>
MsgExtractionFailed == <<"msg:could-not-extract-from-url">>
MsgEmptyCompletion == <<"msg:completion-was-empty">>
MsgJsonNotFound == <<"msg:could-not-extract-json">>
MsgSyntaxError == <<"Unexpected", "token">>
MsgNoUsableModel == <<"msg:no-generateContent-model-for-this-key">>
MsgUnknown == <<"msg:unknown-error">>
\* `external site fetch error (${status})`
MsgFetchError(status) == <<"msg:fetch-error", status>>
\* `no usable model found. tried: ${tried.join(", ")} / last error: ${message}`
MsgModelUnavailable(triedModels, message) ==
  <<"msg:no-usable-model.tried:">> \o triedModels \o <<"/", "last-error:">> \o message

(* errors: message, err.response.status ("" without a response) and
   err.response.data.error.message (<<>> when absent) *)
Error(message) == [message |-> message, status |-> "", apiMessage |-> <<>>]
HttpError(message, status, apiMessage) ==
  [message |-> message, status |-> status, apiMessage |-> apiMessage]
NoError == Error(<<>>)

\* what the catch block of the handler answers with
CatchMessage(v, err) ==
  IF v = "discovery"
  THEN OrElse(err.apiMessage,
         OrElse(IF err.status # "" THEN MsgFetchError(err.status) ELSE err.message,
                MsgUnknown))
  ELSE IF err.status # "" THEN MsgFetchError(err.status)
  ELSE OrElse(err.message, MsgUnknown)

\* throw new Error(`${err.message || err}`)
Rethrown(err) == Error(OrElse(err.message, <<"Error">>))

(* envelopes *)
NoCritique == [present |-> FALSE]
NoSource == [mode |-> "", url |-> <<>>, title |-> <<>>]
TextSource == [mode |-> "text", url |-> <<>>, title |-> <<>>]
UrlSource(url, t) == [mode |-> "url", url |-> url, title |-> t]

\* an error envelope that carries a critique
ErrorEnvelopeWithCritique(status, error) ==
  [status |-> status, ok |-> "false", error |-> error,
   critique |-> [present |-> TRUE,
                 value |-> [title_feedback |-> [kind |-> "falsy", score |-> Undefined],
                            overall_score |-> Undefined]],
   source |-> NoSource, used_model |-> <<>>]

\* res.status(status).json({ ok: false, error })
ErrorEnvelope(status, error) ==
  [status |-> status, ok |-> "false", error |-> error, critique |-> NoCritique,
   source |-> NoSource, used_model |-> <<>>]

\* res.status(200).json({ ok: true, critique, source[, used_model] })
SuccessEnvelope(critique, source, usedModel) ==
  [status |-> 200, ok |-> "true", error |-> <<>>,
   critique |-> [present |-> TRUE, value |-> critique],
   source |-> source, used_model |-> usedModel]

\* res.status(204).end()
EmptyEnvelope ==
  [status |-> 204, ok |-> "none", error |-> <<>>, critique |-> NoCritique,
   source |-> NoSource, used_model |-> <<>>]

(* outbound calls *)
Pending == [kind |-> "pending", text |-> <<>>, error |-> NoError]
Returned(text) == [kind |-> "ok", text |-> text, error |-> NoError]
Failed(err) == [kind |-> "error", text |-> <<>>, error |-> err]

FetchCall(url) == [kind |-> "fetch", target |-> url, outcome |-> Pending]
ListCall == [kind |-> "list", target |-> <<>>, outcome |-> Pending]
GenerateCall(model) == [kind |-> "generate", target |-> model, outcome |-> Pending]

\* the calls with the outcome of the last one filled in
Settle(cs, outcome) == [cs EXCEPT ![Len(cs)].outcome = outcome]

NoResult == [text |-> <<>>, model |-> ""]
NoRaw == [present |-> FALSE]

(* the inputs explored *)

UrlHttp == <<"h", "t", "t", "p", ":", "/", "/", "a">>
UrlHttpsUpper == <<"H", "T", "T", "P", "S", ":", "/", "/", "a">>
UrlFtp == <<"f", "t", "p", ":", "/", "/", "a">>
UrlOneSlash == <<"h", "t", "t", "p", ":", "/", "a">>
UrlNotAUrl == <<"n", "o", "t", "-", "a", "-", "u", "r", "l">>
UrlEmbedded == <<"x", "h", "t", "t", "p", ":", "/", "/", "a">>

\* the pattern without its "^" anchor
UrlOkUnanchored(url) ==
  \/ Includes(ToLowerCase(url), <<"h", "t", "t", "p", ":", "/", "/">>)
  \/ Includes(ToLowerCase(url), <<"h", "t", "t", "p", "s", ":", "/", "/">>)

\* /^https?:\/\//i.test(targetUrl)
UrlOk(url) ==
  \/ StartsWith(ToLowerCase(url), <<"h", "t", "t", "p", ":", "/", "/">>)
  \/ StartsWith(ToLowerCase(url), <<"h", "t", "t", "p", "s", ":", "/", "/">>)

Body(mode, url, t, b) == [mode |-> mode, url |-> url, title |-> t, body |-> b]
NoBody == Body("unread", <<>>, <<>>, <<>>)

\* the JSON bodies: String(body?.x || "") of each field
RequestBodies ==
  { Body("url", u, <<>>, <<>>) :
      u \in {UrlHttp, UrlHttpsUpper, UrlFtp, UrlOneSlash, UrlNotAUrl, UrlEmbedded, <<>>} }
  \cup { Body("text", <<>>, t, b) :
      t \in {<<>>, <<" ", NL>>, <<" ", "T", NL, NL, NL, "x", " ">>},
      b \in {<<>>, <<NL>>, <<"B">>} }
  \cup { Body(m, <<>>, <<"T">>, <<"B">>) : m \in {"", "html"} }

El(tag, cls, parent, text) == [tag |-> tag, cls |-> cls, parent |-> parent, text |-> text]
Doc(nodes, og, t) == [nodes |-> nodes, og |-> og, title |-> t]

\* the pages the origin answers with
FetchedPages ==
  { Doc(<<>>, NoAttr, <<>>),
    Doc(<<El("nav", "", 0, <<"n">>), El("h1", "", 1, <<"h">>), El("article", "", 0, <<" ">>)>>,
        NoAttr, <<" ">>),
    Doc(<<El("h1", "", 0, <<"h">>)>>, NoAttr, <<>>),
    Doc(<<El("p", "", 0, <<"a">>), El("p", "", 0, <<"b">>)>>, NoAttr, <<>>),
    Doc(<<El("article", "", 0, <<"a">>), El("main", "", 0, <<"b">>)>>,
        [present |-> TRUE, content |-> <<"o">>], <<"t">>) }

FetchErrors ==
  { HttpError(<<"Request", "failed", "with", "status", "code", "404">>, "404", <<>>),
    Error(<<"timeout", "of", "20000ms", "exceeded">>) }

\* errors of the generation client: the first three signal an unavailable model
RetryableMessages ==
  { <<"status", "404">>, <<"model", "Not", "Found">>,
    <<"model", "is", "not", "supported", "for", "generateContent">> }
FatalMessages == { <<"API", "key", "not", "valid">>, <<"429", "quota", "exceeded">> }
SdkErrors == { Error(m) : m \in RetryableMessages \cup FatalMessages }

\* errors of the REST calls of the discovery revision
RestErrors ==
  { HttpError(<<"Request", "failed", "with", "status", "code", "400">>, "400",
              <<"API", "key", "not", "valid">>),
    HttpError(<<"Request", "failed", "with", "status", "code", "404">>, "404", <<>>),
    Error(<<"timeout", "of", "30000ms", "exceeded">>) }

NumberRaw(str) == Raw("number", str)
StringRaw(str) == Raw("string", str)
RawScores ==
  { NumberRaw(<<"7">>), NumberRaw(<<"0">>), NumberRaw(<<"1", "1">>),
    StringRaw(<<" ", "8", "x">>), StringRaw(<<"a", "b", "c">>), Undefined }

Critique(tf, os) == [title_feedback |-> tf, overall_score |-> os]
FalsyFeedback == [kind |-> "falsy", score |-> Undefined]
PrimitiveFeedback == [kind |-> "primitive", score |-> Undefined]
ObjectFeedback(score) == [kind |-> "object", score |-> score]

\* the critiques a completion may carry
Critiques ==
  { Critique(FalsyFeedback, os) : os \in RawScores }
  \cup { Critique(ObjectFeedback(sc), NumberRaw(<<"7">>)) : sc \in RawScores }
  \cup { Critique(PrimitiveFeedback, os) : os \in {NumberRaw(<<"7">>), StringRaw(<<"a", "b", "c">>)} }

\* the completion texts: bare JSON, JSON inside prose, no JSON, invalid JSON,
\* a nested multi-line object followed by prose
CompletionTexts ==
  { <<"{", "m", "}">>, <<"p", "{", "m", "}", "p">>, <<"p">>, <<"{", "p", "}">>,
    <<"{", "k", "{", "}", NL, "}", "p">> }

\* a completion: its text and the critique that text spells out
Completions ==
  { [text |-> t, critique |-> c] :
      t \in { x \in CompletionTexts : extractJsonFromText(x).ok }, c \in Critiques }
  \cup { [text |-> t, critique |-> Critique(FalsyFeedback, Undefined)] :
      t \in { x \in CompletionTexts : ~extractJsonFromText(x).ok } \cup {<<>>} }

ModelNames ==
  { <<"gemini-1.5-pro">>, <<"v1", "models", "gemini-1.5-flash">>, <<"gemini-pro">>,
    <<"models", "gemini-1.5-pro-002">>, <<"other">>, <<"v1", "models", "other", "models", "x">> }
Model(name, methods) == [name |-> name, supportedGenerationMethods |-> methods]
ModelEntries ==
  { Model(n, ms) : n \in ModelNames, ms \in {{"generateContent"}, {"embedContent"}} }
ModelLists == SeqsUpTo(ModelEntries, MaxModels)

(* the state after the function is loaded and before a request arrives *)
NotCalled == [called |-> FALSE]
NoPage == Doc(<<>>, NoAttr, <<>>)

HandlerIdle ==
  /\ req = [method |-> "", body |-> NoBody]
  /\ html = NoPage
  /\ title = <<>> /\ content = <<>> /\ sourceMeta = TextSource
  /\ calls = <<>> /\ tried = <<>> /\ lastError = NoError /\ result = NoResult
  /\ models = <<>> /\ chosen = NoModel /\ raw = NoRaw
  /\ responses = <<>> /\ steps = <<>>

Init ==
  /\ variant \in Variants
  /\ apiKey \in BOOLEAN
  /\ pc = "start"
  /\ HandlerIdle
  /\ arg = <<>> /\ ret = NotCalled

env == <<variant, apiKey, arg, ret>>
\* env and html: what only the fetch step writes
fixed == <<env, html>>
resolver == <<tried, lastError, result, models, chosen, raw>>
article == <<title, content, sourceMeta>>

\* return res.status(...)...: the response goes out and the handler ends
Send(envelope) ==
  /\ responses' = Append(responses, envelope)
  /\ pc' = "done"

(* lines up to "await readJsonBody(req)" *)

Options ==
  /\ pc = "start"
  /\ req' = [req EXCEPT !.method = "OPTIONS"]
  /\ Send(EmptyEnvelope)
  /\ UNCHANGED <<fixed, resolver, article, calls, steps>>

MethodNotAllowed ==
  /\ pc = "start"
  /\ \E m \in {"GET", "PUT"} : req' = [req EXCEPT !.method = m]
  /\ Send(ErrorEnvelope(405, MsgMethodNotAllowed))
  /\ UNCHANGED <<fixed, resolver, article, calls, steps>>

Post ==
  /\ pc = "start"
  /\ req' = [req EXCEPT !.method = "POST"]
  /\ pc' = "reading"
  /\ UNCHANGED <<fixed, resolver, article, calls, steps, responses>>

(* from the body read to the first network call *)

\* readJsonBody rejects
InvalidJson ==
  /\ pc = "reading"
  /\ Send(ErrorEnvelope(500, CatchMessage(variant, Error(MsgInvalidJson))))
  /\ UNCHANGED <<fixed, resolver, article, calls, steps, req>>

\* a loop that never advances past the first candidate
NextCandidateStuck(triedModels) == candidateModels[1]

\* for (const m of candidateModels): the candidate tried after those in
\* triedModels failed
NextCandidate(triedModels) == candidateModels[Len(triedModels) + 1]

\* a loop that stops one candidate early
HasNextCandidateOffByOne(triedModels) == Len(triedModels) < Len(candidateModels) - 1

\* whether the loop has a candidate left after those in triedModels
HasNextCandidate(triedModels) == Len(triedModels) < Len(candidateModels)

\* the credential check and what the revision does next, with title t,
\* content c, source sm and the calls so far cs
Gemini(t, c, sm, cs) ==
  /\ title' = t /\ content' = c /\ sourceMeta' = sm
  /\ IF ~apiKey
     THEN /\ steps' = <<"validated">>
          /\ calls' = cs
          /\ Send(ErrorEnvelope(500, MsgNoApiKey))
     ELSE /\ pc' = IF variant = "discovery" THEN "listing" ELSE "generating"
          /\ steps' = IF variant = "single"
                      THEN <<"validated", "credential", "resolved">>
                      ELSE <<"validated", "credential">>
          /\ calls' = Append(cs,
                 IF variant = "discovery" THEN ListCall
                 ELSE IF variant = "fallback" THEN GenerateCall(<<NextCandidate(<<>>)>>)
                 ELSE GenerateCall(<<singleModel>>))
          /\ UNCHANGED responses

BadMode ==
  /\ pc = "reading"
  /\ \E b \in RequestBodies :
       /\ b.mode \notin {"text", "url"}
       /\ req' = [req EXCEPT !.body = b]
  /\ Send(ErrorEnvelope(400, MsgBadMode))
  /\ UNCHANGED <<fixed, resolver, article, calls, steps>>

BadUrl ==
  /\ pc = "reading"
  /\ \E b \in RequestBodies :
       /\ b.mode = "url" /\ ~UrlOk(b.url)
       /\ req' = [req EXCEPT !.body = b]
  /\ Send(ErrorEnvelope(400, MsgBadUrl))
  /\ UNCHANGED <<fixed, resolver, article, calls, steps>>

FetchStart ==
  /\ pc = "reading"
  /\ \E b \in RequestBodies :
       /\ b.mode = "url" /\ UrlOk(b.url)
       /\ req' = [req EXCEPT !.body = b]
       /\ calls' = Append(calls, FetchCall(b.url))
  /\ pc' = "fetching"
  /\ UNCHANGED <<fixed, resolver, article, steps, responses>>

TextMissing ==
  /\ pc = "reading"
  /\ \E b \in RequestBodies :
       /\ b.mode = "text"
       /\ sanitizeText(b.title, DefaultMax) = <<>> \/ sanitizeText(b.body, DefaultMax) = <<>>
       /\ req' = [req EXCEPT !.body = b]
       /\ title' = sanitizeText(b.title, DefaultMax)
       /\ content' = sanitizeText(b.body, DefaultMax)
  /\ Send(ErrorEnvelope(400, MsgTextRequired))
  /\ UNCHANGED <<fixed, resolver, sourceMeta, calls, steps>>

TextAccepted ==
  /\ pc = "reading"
  /\ \E b \in RequestBodies :
       /\ b.mode = "text"
       /\ sanitizeText(b.title, DefaultMax) # <<>> /\ sanitizeText(b.body, DefaultMax) # <<>>
       /\ req' = [req EXCEPT !.body = b]
       /\ Gemini(sanitizeText(b.title, DefaultMax), sanitizeText(b.body, DefaultMax),
                 TextSource, calls)
  /\ UNCHANGED <<fixed, resolver>>

(* from the answer of the HTML origin to the next network call *)

FetchFailed ==
  /\ pc = "fetching"
  /\ \E e \in FetchErrors :
       /\ calls' = Settle(calls, Failed(e))
       /\ Send(ErrorEnvelope(500, CatchMessage(variant, e)))
  /\ UNCHANGED <<fixed, resolver, article, steps, req>>

\* extractArticle of the revision, then sanitizeText of title and body
Extracted(page) ==
  LET a == IF variant = "single" THEN extractArticleSingle(page) ELSE extractArticle(page)
  IN [title |-> sanitizeText(a.title, DefaultMax), body |-> sanitizeText(a.body, DefaultMax)]

\* the test with || for &&
NothingExtractedEither(t, c) == t = <<>> \/ c = <<>>

\* if (!title && !content)
NothingExtracted(t, c) == t = <<>> /\ c = <<>>

ExtractionFailure ==
  /\ pc = "fetching"
  /\ \E page \in FetchedPages :
       /\ NothingExtracted(Extracted(page).title, Extracted(page).body)
       /\ html' = page
       /\ title' = Extracted(page).title /\ content' = Extracted(page).body
       /\ sourceMeta' = UrlSource(req.body.url, Extracted(page).title)
  /\ calls' = Settle(calls, Returned(<<>>))
  /\ Send(ErrorEnvelope(422, MsgExtractionFailed))
  /\ UNCHANGED <<env, resolver, steps, req>>

ExtractionDone ==
  /\ pc = "fetching"
  /\ \E page \in FetchedPages :
       /\ ~NothingExtracted(Extracted(page).title, Extracted(page).body)
       /\ html' = page
       /\ Gemini(Extracted(page).title, Extracted(page).body,
                 UrlSource(req.body.url, Extracted(page).title),
                 Settle(calls, Returned(<<>>)))
  /\ UNCHANGED <<env, resolver, req>>

(* the discovery revision: from the answer of listModels to generateContentREST *)

ListFailed ==
  /\ pc = "listing"
  /\ \E e \in RestErrors :
       /\ calls' = Settle(calls, Failed(e))
       /\ Send(ErrorEnvelope(500, CatchMessage(variant, e)))
  /\ UNCHANGED <<fixed, resolver, article, steps, req>>

NoUsableModel ==
  /\ pc = "listing"
  /\ \E ms \in ModelLists :
       /\ IsFalsyModel(pickBestModel(ms))
       /\ models' = ms
       /\ chosen' = pickBestModel(ms)
  /\ calls' = Settle(calls, Returned(<<>>))
  /\ Send(ErrorEnvelope(500, MsgNoUsableModel))
  /\ UNCHANGED <<fixed, tried, lastError, result, raw, article, steps, req>>

ModelChosen ==
  /\ pc = "listing"
  /\ \E ms \in ModelLists :
       /\ ~IsFalsyModel(pickBestModel(ms))
       /\ models' = ms
       /\ chosen' = pickBestModel(ms)
       /\ calls' = Append(Settle(calls, Returned(<<>>)), GenerateCall(pickBestModel(ms)))
  /\ steps' = steps \o <<"resolved">>
  /\ pc' = "generating"
  /\ UNCHANGED <<fixed, tried, lastError, result, raw, article, responses, req>>

(* the answer to a generation request *)

\* the model the pending generation request names
Asked == calls[Len(calls)].target

\* single and discovery revisions: the request fails
GenerateFailed ==
  /\ pc = "generating" /\ variant # "fallback"
  /\ \E e \in (IF variant = "single" THEN SdkErrors ELSE RestErrors) :
       /\ calls' = Settle(calls, Failed(e))
       /\ Send(ErrorEnvelope(500, CatchMessage(variant, e)))
  /\ UNCHANGED <<fixed, resolver, article, steps, req>>

\* single and discovery revisions: no text comes back
GenerateEmpty ==
  /\ pc = "generating" /\ variant # "fallback"
  /\ calls' = Settle(calls, Returned(<<>>))
  /\ Send(ErrorEnvelope(500, CatchMessage(variant, Error(MsgEmptyCompletion))))
  /\ UNCHANGED <<fixed, resolver, article, steps, req>>

\* what a candidate of generateWithFallback may answer short of a text: an
\* error of the client, or an empty completion
CandidateFailures == { Failed(e) : e \in SdkErrors } \cup { Returned(<<>>) }

\* the err the catch clause of generateWithFallback receives
Caught(outcome) ==
  IF outcome.kind = "error" THEN outcome.error ELSE Error(MsgEmptyCompletion)

\* catch: any other error ends the loop at once
FallbackAbort ==
  /\ pc = "generating" /\ variant = "fallback"
  /\ \E o \in CandidateFailures :
       /\ ~isModelNotFoundOrUnsupported(Caught(o).message)
       /\ calls' = Settle(calls, o)
       /\ tried' = Append(tried, NextCandidate(tried))
       /\ lastError' = Caught(o)
       /\ Send(ErrorEnvelope(500, CatchMessage(variant, Rethrown(Caught(o)))))
  /\ UNCHANGED <<fixed, result, models, chosen, raw, article, steps, req>>

\* catch: model not found or unsupported, on to the next candidate
FallbackNext ==
  /\ pc = "generating" /\ variant = "fallback"
  /\ \E o \in CandidateFailures :
       /\ isModelNotFoundOrUnsupported(Caught(o).message)
       /\ HasNextCandidate(Append(tried, NextCandidate(tried)))
       /\ tried' = Append(tried, NextCandidate(tried))
       /\ lastError' = Caught(o)
       /\ calls' = Append(Settle(calls, o), GenerateCall(<<NextCandidate(tried')>>))
  /\ UNCHANGED <<fixed, result, models, chosen, raw, article, steps, req, pc, responses>>

\* the loop ends without a model: the error after the loop
FallbackExhausted ==
  /\ pc = "generating" /\ variant = "fallback"
  /\ \E o \in CandidateFailures :
       /\ isModelNotFoundOrUnsupported(Caught(o).message)
       /\ ~HasNextCandidate(Append(tried, NextCandidate(tried)))
       /\ tried' = Append(tried, NextCandidate(tried))
       /\ lastError' = Caught(o)
       /\ calls' = Settle(calls, o)
       /\ Send(ErrorEnvelope(500,
             CatchMessage(variant, Error(MsgModelUnavailable(tried', Caught(o).message)))))
  /\ UNCHANGED <<fixed, result, models, chosen, raw, article, steps, req>>

\* return { text: out, model: m } (fallback); the text of the completion (others)
Resolved(text) ==
  [text |-> text, model |-> IF variant = "fallback" THEN NextCandidate(tried) ELSE ""]

\* the stages a non-empty completion completes
Generated ==
  steps \o (IF variant = "fallback" THEN <<"resolved", "generated">> ELSE <<"generated">>)

\* used_model of the success envelope: the discovery revision reports it
UsedModel == IF variant = "discovery" THEN chosen ELSE <<>>

\* the text arrives, extractJsonFromText throws
JsonFailed ==
  /\ pc = "generating"
  /\ \E c \in Completions :
       /\ c.text # <<>> /\ ~extractJsonFromText(c.text).ok
       /\ calls' = Settle(calls, Returned(c.text))
       /\ result' = Resolved(c.text)
       /\ Send(ErrorEnvelope(500, CatchMessage(variant,
             Error(IF extractJsonFromText(c.text).error = "JsonNotFound"
                   THEN MsgJsonNotFound ELSE MsgSyntaxError))))
  /\ steps' = Generated
  /\ UNCHANGED <<fixed, tried, lastError, models, chosen, raw, article, req>>

\* the text arrives and parses: the scores are coerced and the critique sent
Succeeded ==
  /\ pc = "generating"
  /\ \E c \in Completions :
       /\ c.text # <<>> /\ extractJsonFromText(c.text).ok
       /\ calls' = Settle(calls, Returned(c.text))
       /\ result' = Resolved(c.text)
       /\ raw' = [present |-> TRUE, value |-> c.critique]
       /\ Send(SuccessEnvelope(CoerceCritique(c.critique), sourceMeta, UsedModel))
  /\ steps' = Generated \o <<"extracted">>
  /\ UNCHANGED <<fixed, tried, lastError, models, chosen, article, req>>

Next ==
  \/ Options \/ MethodNotAllowed \/ Post
  \/ InvalidJson \/ BadMode \/ BadUrl \/ FetchStart \/ TextMissing \/ TextAccepted
  \/ FetchFailed \/ ExtractionFailure \/ ExtractionDone
  \/ ListFailed \/ NoUsableModel \/ ModelChosen
  \/ GenerateFailed \/ GenerateEmpty
  \/ FallbackAbort \/ FallbackNext \/ FallbackExhausted
  \/ JsonFailed \/ Succeeded

Spec == Init /\ [][Next]_vars

(* ---------------- the functions studied on their own ------------------- *)

Called(value) == [called |-> TRUE, value |-> value]

FunctionInit ==
  /\ variant = "fallback" /\ apiKey = FALSE /\ pc = "function"
  /\ HandlerIdle
  /\ ret = NotCalled

handlerVars ==
  <<variant, apiKey, req, pc, html, title, content, sourceMeta, calls, tried,
    lastError, result, models, chosen, raw, responses, steps>>

\* extractJsonFromText on every text of at most MaxTextLen tokens
InitJson == FunctionInit /\ arg \in SeqsUpTo(JsonTokens, MaxTextLen)

CallExtractJson ==
  /\ pc = "function" /\ ret = NotCalled
  /\ ret' = Called(extractJsonFromText(arg))
  /\ UNCHANGED <<handlerVars, arg>>

SpecJson == InitJson /\ [][CallExtractJson]_vars

\* extractArticle on every document of at most MaxNodes elements
InitExtract == FunctionInit /\ arg \in Documents

CallExtractArticle ==
  /\ pc = "function" /\ ret = NotCalled
  /\ ret' = Called(extractArticle(arg))
  /\ UNCHANGED <<handlerVars, arg>>

SpecExtract == InitExtract /\ [][CallExtractArticle]_vars

\* extractArticle of each of the three revisions on every document of at
\* most MaxNodes elements
InitRevisions ==
  /\ variant \in Variants /\ apiKey = FALSE /\ pc = "function"
  /\ HandlerIdle
  /\ ret = NotCalled
  /\ arg \in Documents

CallExtractArticleOfRevision ==
  /\ pc = "function" /\ ret = NotCalled
  /\ ret' = Called(IF variant = "single" THEN extractArticleSingle(arg)
                   ELSE extractArticle(arg))
  /\ UNCHANGED <<handlerVars, arg>>

SpecRevisions == InitRevisions /\ [][CallExtractArticleOfRevision]_vars

\* the characters of the texts sanitizeText is applied to
TextChars == {"a", " ", NL}

\* texts that already hold the characters of the truncation marker
MarkedTexts == { <<"a">> \o TruncationMarker, TruncationMarker \o <<"a">> }

\* the values of the max parameter: the small ones, and the default
MaxValues == (0..MaxInputLen) \cup {DefaultMax}

\* sanitizeText on every text of at most MaxInputLen characters, for every max
InitSanitize ==
  /\ FunctionInit
  /\ arg \in { [s |-> s, max |-> m] :
               s \in SeqsUpTo(TextChars, MaxInputLen) \cup MarkedTexts, m \in MaxValues }

CallSanitizeText ==
  /\ pc = "function" /\ ret = NotCalled
  /\ ret' = Called(sanitizeText(arg.s, arg.max))
  /\ UNCHANGED <<handlerVars, arg>>

SpecSanitize == InitSanitize /\ [][CallSanitizeText]_vars

(* ------------------------------ claims --------------------------------- *)

IsGenerateCall(c) == c.kind = "generate"
\* the generation requests issued so far, in order
GenerateCalls == SelectSeq(calls, IsGenerateCall)

\* the outcome signals model-not-found or method-unsupported
SignalsUnavailable(o) == o.kind = "error" /\ o.error.message \in RetryableMessages

\* the outcome is another failure: authentication, quota, or an empty completion
FailsOtherwise(o) ==
  \/ o.kind = "error" /\ o.error.message \in FatalMessages
  \/ o.kind = "ok" /\ o.text = <<>>

\* the message of such a failure
UnderlyingMessage(o) == IF o.kind = "error" THEN o.error.message ELSE MsgEmptyCompletion

\* C1: static fallback: when the first k candidates each signal an
\* unavailable model and candidate k+1 answers with a non-empty text, the
\* resolver returns that text with candidate k+1's identifier, and exactly
\* the candidates 1..k+1 were each asked once, in priority order.
C1_FallbackReturnsFirstAvailable ==
  variant = "fallback" =>
    \A k \in 0..(Len(GenerateCalls) - 1) :
      ( /\ \A i \in 1..k : SignalsUnavailable(GenerateCalls[i].outcome)
        /\ GenerateCalls[k + 1].outcome.kind = "ok"
        /\ GenerateCalls[k + 1].outcome.text # <<>> )
      => /\ result = [text |-> GenerateCalls[k + 1].outcome.text,
                      model |-> candidateModels[k + 1]]
         /\ Len(GenerateCalls) = k + 1
         /\ \A i \in 1..(k + 1) : GenerateCalls[i].target = <<candidateModels[i]>>

\* A and B signal "not found", C answers
C1_Witness ==
  /\ variant = "fallback"
  /\ Len(GenerateCalls) = 3
  /\ SignalsUnavailable(GenerateCalls[1].outcome)
  /\ SignalsUnavailable(GenerateCalls[2].outcome)
  /\ GenerateCalls[3].outcome.kind = "ok" /\ GenerateCalls[3].outcome.text # <<>>
  /\ result.model = candidateModels[3]

\* C2: static fallback: a failure that is not model-not-found or
\* method-unsupported ends the resolver at once: the failed request is the
\* last one issued, and the caller receives a 500 whose error is the
\* underlying message, unchanged.
C2_OtherErrorAborts ==
  variant = "fallback" =>
    \A i \in 1..Len(GenerateCalls) :
      FailsOtherwise(GenerateCalls[i].outcome)
      => /\ i = Len(GenerateCalls)
         /\ pc = "done"
         /\ responses = <<ErrorEnvelope(500, UnderlyingMessage(GenerateCalls[i].outcome))>>

\* the second candidate fails with an authentication or quota error, three
\* candidates are left untried
C2_Witness ==
  /\ variant = "fallback"
  /\ Len(GenerateCalls) = 2
  /\ GenerateCalls[2].outcome.kind = "error"
  /\ GenerateCalls[2].outcome.error.message \in FatalMessages
  /\ pc = "done"

\* C3: static fallback: when every candidate signals an unavailable model
\* the resolver fails with ModelUnavailable after asking each candidate once,
\* in priority order, never more than |candidateModels| times, and the
\* handler answers 500 {ok: false} without a critique.
C3_AllUnavailable ==
  variant = "fallback" =>
    /\ Len(GenerateCalls) <= Len(candidateModels)
    /\ ( /\ GenerateCalls # <<>>
         /\ \A i \in 1..Len(GenerateCalls) : SignalsUnavailable(GenerateCalls[i].outcome) )
       => /\ Len(GenerateCalls) = Len(candidateModels)
          /\ \A i \in 1..Len(candidateModels) : GenerateCalls[i].target = <<candidateModels[i]>>
          /\ pc = "done"
          /\ responses =
               <<ErrorEnvelope(500,
                   MsgModelUnavailable(candidateModels,
                     GenerateCalls[Len(GenerateCalls)].outcome.error.message))>>
          /\ ~responses[1].critique.present

C3_Witness ==
  /\ variant = "fallback"
  /\ Len(GenerateCalls) = Len(candidateModels)
  /\ \A i \in 1..Len(GenerateCalls) : SignalsUnavailable(GenerateCalls[i].outcome)
  /\ Len(responses) = 1 /\ responses[1].status = 500

\* the url starts with http:// or https:// (the scheme in either case)
HasHttpScheme(url) ==
  \E n \in {7, 8} :
    /\ Len(url) >= n
    /\ ToLowerCase(SubSeq(url, 1, n)) \in
         { <<"h", "t", "t", "p", ":", "/", "/">>, <<"h", "t", "t", "p", "s", ":", "/", "/">> }

\* bad mode, malformed url, or an empty normalized title or body
InvalidRequest(b) ==
  \/ b.mode \notin {"text", "url"}
  \/ b.mode = "url" /\ ~HasHttpScheme(b.url)
  \/ b.mode = "text" /\ ( \/ sanitizeText(b.title, DefaultMax) = <<>>
                          \/ sanitizeText(b.body, DefaultMax) = <<>> )

BodyWasRead == req.method = "POST" /\ req.body.mode # "unread"

\* C4: a POST whose body has a bad mode, a url without the http(s) scheme,
\* or (text mode) an empty normalized title or body is answered 400
\* {ok: false, error}, and no outbound call is made for it, with or without
\* the API credential.
C4_InvalidRequestRejected ==
  (BodyWasRead /\ InvalidRequest(req.body))
  => /\ pc = "done"
     /\ Len(responses) = 1
     /\ responses[1].status = 400
     /\ responses[1].ok = "false"
     /\ responses[1].error # <<>>
     /\ calls = <<>>

\* {mode: "url", url: "not-a-url"} with the credential configured
C4_Witness ==
  /\ apiKey
  /\ BodyWasRead /\ req.body.mode = "url" /\ req.body.url = UrlNotAUrl
  /\ Len(responses) = 1 /\ responses[1].status = 400

\* null, or an integer from 1 to 10
ScoreInRange(v) == v = Null \/ (v.kind = "int" /\ v.val \in 1..10)

IsSuccess(r) == r.ok = "true"

ExpectedScore(rawScore) ==
  CASE rawScore = NumberRaw(<<"7">>) -> Number(7)
    [] rawScore = NumberRaw(<<"0">>) -> Number(0)
    [] rawScore = NumberRaw(<<"1", "1">>) -> Number(11)
    [] rawScore = StringRaw(<<" ", "8", "x">>) -> Number(8)
    [] rawScore = StringRaw(<<"a", "b", "c">>) -> Null
    [] rawScore = Undefined -> Null

FullPipeline == <<"validated", "credential", "resolved", "generated", "extracted">>

\* the last call is a generation request answered with a text that parses
GenerationParsed ==
  /\ calls # <<>>
  /\ calls[Len(calls)].kind = "generate"
  /\ calls[Len(calls)].outcome.kind = "ok"
  /\ calls[Len(calls)].outcome.text # <<>>
  /\ extractJsonFromText(calls[Len(calls)].outcome.text).ok

\* C6: a request gets exactly one response; a critique is carried only by
\* the 200 {ok: true} envelope, which is sent only after validation,
\* credential check, model resolution, generation and JSON extraction have
\* succeeded in that order; any failure gives {ok: false, error} without a
\* critique.
C6_AllOrNothing ==
  /\ Len(responses) <= 1
  /\ (pc = "done") <=> (Len(responses) = 1)
  /\ pc # "done" => ENABLED Next
  /\ \A i \in 1..Len(responses) :
       /\ (responses[i].critique.present \/ responses[i].status = 200)
            => /\ responses[i].status = 200 /\ responses[i].ok = "true"
               /\ responses[i].critique.present
               /\ steps = FullPipeline
               /\ BodyWasRead /\ ~InvalidRequest(req.body)
               /\ apiKey
               /\ GenerationParsed
       /\ (req.method = "POST" /\ steps # FullPipeline)
            => /\ responses[i].ok = "false"
               /\ responses[i].error # <<>>
               /\ ~responses[i].critique.present

\* a critique delivered by the discovery revision for a url request
C6_Witness ==
  /\ variant = "discovery" /\ req.body.mode = "url"
  /\ Len(responses) = 1 /\ responses[1].critique.present
  /\ steps = FullPipeline

FetchReturned ==
  calls # <<>> /\ calls[1].kind = "fetch" /\ calls[1].outcome.kind = "ok"

CompletionServiceCalls == { i \in 1..Len(calls) : calls[i].kind \in {"list", "generate"} }

\* C7: url mode, after a successful fetch: the answer is 422 {ok: false}
\* exactly when the normalized extracted title and body are both empty, and
\* then the completion service is not called; with either one non-empty the
\* handler goes on to the credential check and, the credential set, calls
\* the completion service.
C7_ExtractionFailure ==
  FetchReturned =>
    LET bothEmpty == Extracted(html).title = <<>> /\ Extracted(html).body = <<>>
    IN /\ (\E i \in 1..Len(responses) : responses[i].status = 422) <=> bothEmpty
       /\ bothEmpty => /\ CompletionServiceCalls = {}
                       /\ Len(responses) = 1 /\ responses[1].ok = "false"
       /\ (~bothEmpty /\ apiKey) => 2 \in CompletionServiceCalls
       /\ (~bothEmpty /\ ~apiKey) => /\ CompletionServiceCalls = {}
                                     /\ responses = <<ErrorEnvelope(500, MsgNoApiKey)>>

\* a page with paragraphs and no title goes on to the completion service
C7_Witness ==
  /\ FetchReturned
  /\ Extracted(html).title = <<>> /\ Extracted(html).body # <<>>
  /\ 2 \in CompletionServiceCalls

\* the tokens are prose: no brace, no JSON
IsProse(s) == Range(s) \subseteq {"p", NL}

\* C8 as stated: for a text prefix + J + suffix with J a valid JSON object
\* (several lines, nested objects) and brace-free prose around it,
\* extractJsonFromText returns the object J.
C8_ExtractsEmbeddedObject ==
  ret.called =>
    \A i \in 1..Len(arg) : \A j \in i..Len(arg) :
      ( /\ IsProse(SubSeq(arg, 1, i - 1))
        /\ ParsesAsObject(SubSeq(arg, i, j))
        /\ IsProse(SubSeq(arg, j + 1, Len(arg))) )
      => /\ ret.value.ok
         /\ ret.value.value = Canonical(SubSeq(arg, i, j))

ListReturned ==
  /\ variant = "discovery"
  /\ \E i \in 1..Len(calls) : calls[i].kind = "list" /\ calls[i].outcome.kind = "ok"

\* the listed models that advertise generateContent
UsableListed ==
  { i \in 1..Len(models) : "generateContent" \in models[i].supportedGenerationMethods }

\* the usable models that match entry k of a priority list
Hits(list, k) == { i \in UsableListed : NameMatches(models[i].name, list[k]) }

\* the choice the claim describes, walking the given priority list
ExpectedChoice(list) ==
  IF UsableListed = {} THEN NoModel
  ELSE LET hit == { k \in 1..Len(list) : Hits(list, k) # {} }
       IN IF hit = {} THEN StripModelsPrefix(models[Min(UsableListed)].name)
          ELSE StripModelsPrefix(models[Min(Hits(list, Min(hit)))].name)

FirstNonEmptyTier(nodes, kept) ==
  OrElse(Trim(FirstText(nodes, kept, "article")),
    OrElse(Trim(FirstText(nodes, kept, "main")),
           Trim(Join(ParagraphParts(nodes, kept, 1), <<NL, NL>>))))

\* C10 as stated: the body returned is the text of the first tier, in the
\* order <article>, <main>, paragraphs joined by a blank line, that yields
\* non-empty content; an <article> or <main> whose text is empty is passed
\* over for the next tier.
C10_BodyIsFirstNonEmptyTier ==
  ret.called =>
    ret.value.body = FirstNonEmptyTier(arg.nodes, AfterNoiseRemoval(arg.nodes))

\* n newlines
Newlines(n) == [i \in 1..n |-> NL]

\* a piece of text without whitespace, not empty
IsSolid(s) == s # <<>> /\ \A i \in 1..Len(s) : ~IsWs(s[i])

\* C11 as stated: when the text is two pieces of non-whitespace text with a
\* run of n newlines between them (and nothing is cut), the output holds
\* exactly two newlines between the pieces for n >= 3, and the run as it is
\* for n = 1 and n = 2.
C11_BlankLinePreserved ==
  ret.called =>
    \A i \in 1..Len(arg.s) : \A j \in i..Len(arg.s) :
      ( /\ IsSolid(SubSeq(arg.s, 1, i - 1))
        /\ SubSeq(arg.s, i, j) = Newlines(j - i + 1)
        /\ IsSolid(SubSeq(arg.s, j + 1, Len(arg.s)))
        /\ arg.max >= Len(arg.s) )
      => ret.value = SubSeq(arg.s, 1, i - 1)
                       \o Newlines(IF j - i + 1 >= 3 THEN 2 ELSE j - i + 1)
                       \o SubSeq(arg.s, j + 1, Len(arg.s))

\* the trimmed, collapsed text: the input after the two replacements and trim
Collapsed(s) == Trim(ReplaceNl3(ReplaceWsNl(s, 1), 1))

\* C12: for every input and every max >= 0 the output is never longer than
\* max plus the marker; when the trimmed, collapsed text is longer than max
\* the output is its first max characters followed by the marker, otherwise
\* it is that text unchanged, no marker added; so the output of a text that
\* does not itself end with the marker's characters ends with the marker
\* exactly when the text was longer than max.  An empty input gives the
\* empty string.
C12_Truncation ==
  ret.called =>
    /\ Len(ret.value) <= arg.max + Len(TruncationMarker)
    /\ Len(Collapsed(arg.s)) > arg.max
         => /\ Len(ret.value) = arg.max + Len(TruncationMarker)
            /\ SubSeq(ret.value, 1, arg.max) = SubSeq(Collapsed(arg.s), 1, arg.max)
            /\ EndsWith(ret.value, TruncationMarker)
    /\ Len(Collapsed(arg.s)) <= arg.max => ret.value = Collapsed(arg.s)
    /\ ~EndsWith(Collapsed(arg.s), TruncationMarker)
         => (EndsWith(ret.value, TruncationMarker) <=> Len(Collapsed(arg.s)) > arg.max)
    /\ arg.s = <<>> => ret.value = <<>>

\* a text that trimming shortens and that is still longer than max is cut
C12_Witness ==
  /\ ret.called
  /\ arg.max > 0
  /\ Len(Collapsed(arg.s)) < Len(arg.s)
  /\ Len(Collapsed(arg.s)) > arg.max
  /\ ret.value = SubSeq(Collapsed(arg.s), 1, arg.max) \o TruncationMarker

\* the elements of a document that match a noise selector or lie inside one
NoiseElements(nodes) ==
  { j \in 1..Len(nodes) :
      \E a \in 1..Len(nodes) : MatchesNoise(nodes[a]) /\ IsAncestorOrSelf(nodes, a, j) }

\* the visible characters of the own text of the elements in js
CharsOf(nodes, js) == { c \in UNION { Range(nodes[j].text) : j \in js } : ~IsWs(c) }

\* the characters of a document that occur only inside noise elements
NoiseOnlyChars(doc) ==
  CharsOf(doc.nodes, NoiseElements(doc.nodes))
    \ ( CharsOf(doc.nodes, (1..Len(doc.nodes)) \ NoiseElements(doc.nodes))
         \cup Range(doc.og.content) \cup Range(doc.title) )

\* C13 as stated: in every revision of the extractor, text that occurs only
\* inside an element of the noise set (one nested in <article> or <main>, an
\* <h1> inside a noise element) appears neither in the title nor in the body
\* returned.
C13_NoiseNeverExtracted ==
  ret.called =>
    NoiseOnlyChars(arg) \cap (Range(ret.value.title) \cup Range(ret.value.body)) = {}

====
